---- MODULE Spec2Model ----
(***************************************************************************)
(* The /predict request pipeline of fastapi_backend/main.py: upload        *)
(* intake, BPM detection, the predict_and_save call, the output check,     *)
(* the finally-cleanup and the response that FastAPI and the log_requests  *)
(* middleware build from what the handler returned or raised.              *)
(*                                                                         *)
(* predict is an `async def` without a single await, and uvicorn.run       *)
(* serves the app from one event loop: a handler body, once entered, runs  *)
(* to its exit before another handler body starts.  The variable `loop`    *)
(* holds the request whose handler body is running.  Requests overlap      *)
(* before the body (the middleware has logged INC) and after it (the       *)
(* response is being streamed).                                            *)
(***************************************************************************)
EXTENDS Integers, Sequences, FiniteSets, TLC

----------------------------------------------------------------------------
(* Bounds of the model *)

\* requests of one run; each is served once
NumReq == 2

(* Program constants *)
\* detected_bpm = 120
DefaultBpm == 120
\* ... else 120 in the midi_tempo argument
FallbackTempo == 120
\* HTTPException(status_code=500, ...), JSONResponse(status_code=500, ...)
ServerError == 500
\* FileResponse default status
StatusOk == 200

Requests == 1..NumReq
NoReq == 0

----------------------------------------------------------------------------
(* Values *)

\* Python None / str
None == [some |-> FALSE, s |-> ""]
Some(m) == [some |-> TRUE, s |-> m]
\* truthiness of an Optional[str]: None and "" are falsy
Truthy(o) == o.some /\ o.s # ""

\* Python numbers: an int, or a float that is nan / inf / -inf.  A finite
\* float of the estimator is held in tenths of a BPM until round().
PyInt(n) == [kind |-> "int", v |-> n]
Fin(t10) == [kind |-> "float", v |-> t10]
NaN == [kind |-> "nan", v |-> 0]
PosInf == [kind |-> "inf", v |-> 1]
NegInf == [kind |-> "inf", v |-> -1]
NoNum == [kind |-> "none", v |-> 0]

\* x > 0 on Python numbers (nan compares False with everything)
Gt0(x) ==
    CASE x.kind = "int" -> x.v > 0
      [] x.kind = "float" -> x.v > 0
      [] x.kind = "inf" -> x.v > 0
      [] OTHER -> FALSE

\* round(x) of a finite float held in tenths: round half to even
RoundHalfEven(t10) ==
    LET q == t10 \div 10
        r == t10 % 10
    IN  IF r < 5 THEN q
        ELSE IF r > 5 THEN q + 1
        ELSE IF q % 2 = 0 THEN q ELSE q + 1

DigitChar == <<"0", "1", "2", "3", "4", "5", "6", "7", "8", "9">>

RECURSIVE Digits(_)
Digits(n) ==
    IF n < 10 THEN <<DigitChar[n + 1]>>
    ELSE Digits(n \div 10) \o <<DigitChar[(n % 10) + 1]>>

\* str(x) of a Python number, as a sequence of characters
Str(x) ==
    CASE x.kind = "int" ->
            IF x.v < 0 THEN <<"-">> \o Digits(-x.v) ELSE Digits(x.v)
      [] x.kind = "nan" -> <<"n", "a", "n">>
      [] x.kind = "inf" ->
            IF x.v < 0 THEN <<"-", "i", "n", "f">> ELSE <<"i", "n", "f">>
      [] OTHER -> <<>>

----------------------------------------------------------------------------
(* Paths: sequences of characters and opaque tokens *)

Sep == "/"
Dot == "."

\* os.environ.get("NP_UPLOAD_DIR", "uploads"), os.environ.get("NP_OUTPUT_DIR", "outputs")
upload_dir == <<"uploads">>
output_dir == <<"outputs">>

\* os.path.join(dir, name) for a relative name
Join(dir, name) == dir \o <<Sep>> \o name

HasSep(p) == \E i \in 1..Len(p) : p[i] = Sep

\* index of the last occurrence of c in p, 0 when there is none
LastIndex(p, c) ==
    LET S == {i \in 1..Len(p) : p[i] = c}
    IN  IF S = {} THEN 0 ELSE CHOOSE i \in S : \A j \in S : j <= i

\* os.path.basename(p): what follows the last separator
Basename(p) == SubSeq(p, LastIndex(p, Sep) + 1, Len(p))

\* (mutant) a root that ends at the first dot of the name
SplitextRootFirstDot(p) ==
    LET sep == LastIndex(p, Sep)
        S == {i \in (sep + 1)..Len(p) : p[i] = Dot /\ \E j \in (sep + 1)..(i - 1) : p[j] # Dot}
    IN  IF S # {}
        THEN SubSeq(p, 1, (CHOOSE i \in S : \A j \in S : i <= j) - 1)
        ELSE p

\* os.path.splitext(p)[0]: the last dot splits, unless it is in a directory
\* part or only leading dots of the base name precede it
SplitextRoot(p) ==
    LET sep == LastIndex(p, Sep)
        dot == LastIndex(p, Dot)
    IN  IF dot > sep /\ \E i \in (sep + 1)..(dot - 1) : p[i] # Dot
        THEN SubSeq(p, 1, dot - 1)
        ELSE p

\* (mutant) the upload is stored under its original name alone
InputPathNoPrefix(id, name) == Join(upload_dir, name)

\* f"{file_id}_{file.filename}" under upload_dir
InputPath(id, name) == Join(upload_dir, <<id, "_">> \o name)

\* f"{splitext(basename(input_path))[0]}_basic_pitch.mid" under output_dir
MidiFilename(ip) == SplitextRoot(Basename(ip)) \o <<"_basic_pitch.mid">>
MidiPath(ip) == Join(output_dir, MidiFilename(ip))

\* os.path.abspath of a relative path
Abspath(p) == <<"cwd", Sep>> \o p

\* f"{os.path.splitext(file.filename)[0]}.mid"
DownloadName(name) == SplitextRoot(name) \o <<".mid">>

----------------------------------------------------------------------------
(* Inputs and outcomes of the collaborators *)

\* the values of uuid.uuid4(), in the order they are drawn
IdName == <<"u1", "u2", "u3", "u4", "u5", "u6">>
NoId == ""

\* original filenames of the uploads: one with a space and several dots,
\* one with a path separator
FileNames ==
    { <<"a", " ", "b", ".", "c", ".", "w">>,
      <<"d", "/", "a">> }

\* every original filename of at most MaxLen characters: letters, dots,
\* spaces and path separators
MaxLen == 5
PathChars == {"a", Dot, " ", Sep}
UploadNames == UNION {[1..n -> PathChars] : n \in 1..MaxLen}

\* the midi_tempo form field
MidiTempos == {-1, 0, 300}

\* str(e) of the exceptions the collaborators raise
EstMsgs == {"", "decode error"}
EngineMsgs == {"bad audio"}
SaveMsgs == {"disk full"}

\* what librosa.load / librosa.beat.beat_track do: raise, or return the
\* tempo as a scalar or as an array
EstimatorTempos == {Fin(-50), Fin(0), Fin(395), Fin(974), Fin(2505), Fin(3000), NaN, PosInf}
EstimatorOutcomes ==
    {[kind |-> "raise", msg |-> m, val |-> <<>>] : m \in EstMsgs}
    \cup {[kind |-> "scalar", msg |-> "", val |-> <<t>>] : t \in EstimatorTempos}
    \cup {[kind |-> "array", msg |-> "", val |-> <<t>>] : t \in {Fin(974), Fin(2505)}}
    \cup {[kind |-> "array", msg |-> "", val |-> <<>>]}

\* what predict_and_save does: raise, write the MIDI file and return, or
\* return without the file
EngineOutcomes ==
    {[kind |-> "raise", msg |-> m] : m \in EngineMsgs}
    \cup {[kind |-> "wrote", msg |-> ""], [kind |-> "nofile", msg |-> ""]}

\* what os.remove does: delete, raise with the file still there, or raise
\* because the file went away after os.path.exists
RemoveOutcomes == {"removed", "raise_kept", "raise_gone"}

\* os.makedirs(upload_dir, exist_ok=True); os.makedirs(output_dir, exist_ok=True)
Makedirs(d) == d \cup {upload_dir, output_dir}

\* (mutant) a generator that returns the same value on every call
NewIdRepeats(used) == IdName[1]

\* uuid.uuid4(): a value no earlier call returned
NewId(used) == IdName[Cardinality(used) + 1]

----------------------------------------------------------------------------
(* State *)

VARIABLES
    pc,            \* where each request is
    loop,          \* the request whose handler body runs, or NoReq
    disk,          \* the paths that exist on disk
    usedIds,       \* the uuid4 values drawn so far
    filename,      \* file.filename
    midi_tempo,    \* the midi_tempo form field
    file_id,       \* file_id
    input_path,    \* input_path
    detected_bpm,  \* detected_bpm
    bpm_error,     \* bpm_error
    midi_path,     \* midi_path
    outcome,       \* what the handler body is leaving with
    ret,           \* the FileResponse object built by the handler
    resp,          \* the response the client receives
    est_calls,     \* calls of librosa.load for the request
    est_result,    \* how BPM detection ended
    engine_calls,  \* calls of predict_and_save for the request
    engine_tempo,  \* the midi_tempo argument of predict_and_save
    engine_result, \* how predict_and_save ended
    save_result,   \* how the upload's write ended
    rm_result      \* how os.remove ended

locals == <<filename, midi_tempo, file_id, input_path, detected_bpm, bpm_error, midi_path>>
observed == <<est_calls, est_result, engine_calls, engine_tempo, engine_result,
             save_result, rm_result>>
vars == <<pc, loop, disk, usedIds, locals, outcome, ret, resp, observed>>

NoOutcome == [kind |-> "none", msg |-> ""]
NoResponse ==
    [status |-> 0, media_type |-> "", path |-> <<>>, filename |-> <<>>,
     headers |-> <<>>, body |-> <<>>]
NoEngine == [kind |-> "none", msg |-> ""]

Init ==
    /\ pc = [r \in Requests |-> "idle"]
    /\ loop = NoReq
    /\ disk = {}
    /\ usedIds = {}
    /\ filename = [r \in Requests |-> <<>>]
    /\ midi_tempo = [r \in Requests |-> 0]
    /\ file_id = [r \in Requests |-> NoId]
    /\ input_path = [r \in Requests |-> <<>>]
    /\ detected_bpm = [r \in Requests |-> NoNum]
    /\ bpm_error = [r \in Requests |-> None]
    /\ midi_path = [r \in Requests |-> <<>>]
    /\ outcome = [r \in Requests |-> NoOutcome]
    /\ ret = [r \in Requests |-> NoResponse]
    /\ resp = [r \in Requests |-> NoResponse]
    /\ est_calls = [r \in Requests |-> 0]
    /\ est_result = [r \in Requests |-> "none"]
    /\ engine_calls = [r \in Requests |-> 0]
    /\ engine_tempo = [r \in Requests |-> NoNum]
    /\ engine_result = [r \in Requests |-> NoEngine]
    /\ save_result = [r \in Requests |-> "none"]
    /\ rm_result = [r \in Requests |-> "none"]

----------------------------------------------------------------------------
(* The steps of the handler, as functions of what the collaborators did *)

\* BPM DETECTION: detected_bpm, bpm_error and how the block ended, for one
\* outcome of librosa.  An exception before the assignment leaves
\* detected_bpm at 120; round() raises on nan and inf after the assignment.
BpmDetection(o) ==
    IF o.kind = "raise"
    THEN [bpm |-> PyInt(DefaultBpm), err |-> Some(o.msg), result |-> "raised"]
    ELSE IF o.kind = "array" /\ Len(o.val) = 0
    THEN [bpm |-> PyInt(DefaultBpm), err |-> Some("index 0 is out of bounds"),
          result |-> "raised"]
    ELSE LET f == o.val[1]
         IN  CASE f.kind = "float" ->
                    [bpm |-> PyInt(RoundHalfEven(f.v)), err |-> None, result |-> "ok"]
               [] f.kind = "nan" ->
                    [bpm |-> f, err |-> Some("cannot convert float NaN to integer"),
                     result |-> "round_raised"]
               [] OTHER ->
                    [bpm |-> f, err |-> Some("cannot convert float infinity to integer"),
                     result |-> "round_raised"]

\* (mutant) the detected tempo wins over the caller's
ResolvedTempoPrefersDetected(mt, bpm) ==
    IF Gt0(bpm) THEN bpm
    ELSE IF mt > 0 THEN PyInt(mt) ELSE PyInt(FallbackTempo)

\* (mutant) the detected value is passed on whatever its sign
ResolvedTempoNoFallback(mt, bpm) == IF mt > 0 THEN PyInt(mt) ELSE bpm

\* midi_tempo if midi_tempo > 0 else (detected_bpm if detected_bpm > 0 else 120)
ResolvedTempo(mt, bpm) ==
    IF mt > 0 THEN PyInt(mt)
    ELSE IF Gt0(bpm) THEN bpm ELSE PyInt(FallbackTempo)

\* raise HTTPException(status_code=500, detail=...)
HTTPException(detail) == [kind |-> "HTTPException", msg |-> detail]
\* any other exception leaving the handler
Raised(msg) == [kind |-> "Exception", msg |-> msg]
Returned == [kind |-> "return", msg |-> ""]

\* "X-Bpm-Error": bpm_error if bpm_error else ""
BpmErrorHeader(err) == IF Truthy(err) THEN err.s ELSE ""

\* the headers of the FileResponse
ResponseHeaders(mp, bpm, err) ==
    ("X-Absolute-Path" :> Abspath(mp))
    @@ ("X-Detected-Bpm" :> Str(bpm))
    @@ ("X-Bpm-Error" :> BpmErrorHeader(err))

\* return FileResponse(midi_path, media_type="audio/midi", filename=..., headers=...)
FileResponse(mp, name, bpm, err) ==
    [status |-> StatusOk, media_type |-> "audio/midi", path |-> mp,
     filename |-> DownloadName(name), headers |-> ResponseHeaders(mp, bpm, err),
     body |-> <<>>]

JSONResponse(code, content) ==
    [status |-> code, media_type |-> "application/json", path |-> <<>>,
     filename |-> <<>>, headers |-> <<>>, body |-> content]

\* what the client receives for what the handler left with: the returned
\* response, the framework's {"detail": ...} for an HTTPException, and the
\* middleware's {"error": ..., "traceback": ...} for any other exception
ClientResponse(o, r) ==
    CASE o.kind = "return" -> r
      [] o.kind = "HTTPException" -> JSONResponse(ServerError, "detail" :> o.msg)
      [] OTHER ->
            JSONResponse(ServerError,
                ("error" :> o.msg)
                @@ ("traceback" :> <<"Traceback (most recent call last):", o.msg>>))

\* (mutant) a cleanup that leaves the file
AfterRemoveKeeps(d, p, o) == d

\* (mutant) a cleanup that takes the request's output file as well
AfterRemoveTakesOutput(d, p, o) == d \ {p, MidiPath(p)}

\* the disk after os.remove(p) ended as o
AfterRemove(d, p, o) == IF o = "raise_kept" THEN d ELSE d \ {p}

\* the exception of a failed os.remove
RemoveError(o) ==
    IF o = "raise_kept" THEN "permission denied" ELSE "no such file or directory"

----------------------------------------------------------------------------
(* Actions *)

\* log_requests logs INC and awaits call_next
Arrive(r) ==
    /\ pc[r] = "idle"
    /\ pc' = [pc EXCEPT ![r] = "received"]
    /\ UNCHANGED <<loop, disk, usedIds, locals, outcome, ret, resp, observed>>

\* the handler body starts: the form fields are bound, the two directories
\* made, file_id and input_path computed
Start(r) ==
    /\ pc[r] = "received"
    /\ loop = NoReq
    /\ \E name \in FileNames, mt \in MidiTempos :
        LET id == NewId(usedIds)
        IN  /\ filename' = [filename EXCEPT ![r] = name]
            /\ midi_tempo' = [midi_tempo EXCEPT ![r] = mt]
            /\ file_id' = [file_id EXCEPT ![r] = id]
            /\ input_path' = [input_path EXCEPT ![r] = InputPath(id, name)]
            /\ usedIds' = usedIds \cup {id}
    /\ disk' = Makedirs(disk)
    /\ loop' = r
    /\ pc' = [pc EXCEPT ![r] = "save"]
    /\ UNCHANGED <<detected_bpm, bpm_error, midi_path, outcome, ret, resp, observed>>

\* open(input_path, "wb") and shutil.copyfileobj succeed
SaveOk(r) ==
    /\ pc[r] = "save"
    /\ ~HasSep(filename[r])
    /\ disk' = disk \cup {input_path[r]}
    /\ save_result' = [save_result EXCEPT ![r] = "ok"]
    /\ pc' = [pc EXCEPT ![r] = "bpm"]
    /\ UNCHANGED <<loop, usedIds, locals, outcome, ret, resp, est_calls, est_result,
                   engine_calls, engine_tempo, engine_result, rm_result>>

\* (mutant) the error is logged and the handler carries on
SaveErrorSwallowed(r) ==
    /\ pc[r] = "save"
    /\ save_result' = [save_result EXCEPT ![r] = "failed"]
    /\ pc' = [pc EXCEPT ![r] = "bpm"]
    /\ UNCHANGED <<loop, disk, usedIds, locals, outcome, ret, resp, est_calls,
                   est_result, engine_calls, engine_tempo, engine_result, rm_result>>

\* open fails (always when the name has a separator: the directory
\* {upload_dir}/{file_id}_... does not exist), or the copy fails and leaves
\* the partial file; the HTTPException leaves the handler before the try
SaveError(r) ==
    /\ pc[r] = "save"
    /\ \E partial \in BOOLEAN, m \in SaveMsgs :
        /\ partial => ~HasSep(filename[r])
        /\ disk' = IF partial THEN disk \cup {input_path[r]} ELSE disk
        /\ outcome' = [outcome EXCEPT ![r] = HTTPException(m)]
    /\ save_result' = [save_result EXCEPT ![r] = "failed"]
    /\ pc' = [pc EXCEPT ![r] = "exit"]
    /\ UNCHANGED <<loop, usedIds, locals, ret, resp, est_calls, est_result,
                   engine_calls, engine_tempo, engine_result, rm_result>>

\* BPM DETECTION, run for every stored request
Estimate(r) ==
    /\ pc[r] = "bpm"
    /\ \E o \in EstimatorOutcomes :
        LET d == BpmDetection(o)
        IN  /\ detected_bpm' = [detected_bpm EXCEPT ![r] = d.bpm]
            /\ bpm_error' = [bpm_error EXCEPT ![r] = d.err]
            /\ est_result' = [est_result EXCEPT ![r] = d.result]
    /\ est_calls' = [est_calls EXCEPT ![r] = @ + 1]
    /\ pc' = [pc EXCEPT ![r] = "infer"]
    /\ UNCHANGED <<loop, disk, usedIds, filename, midi_tempo, file_id, input_path,
                   midi_path, outcome, ret, resp, engine_calls, engine_tempo,
                   engine_result, save_result, rm_result>>

\* (mutant) a handler that calls the engine a second time when it raised
InferRetries(r) ==
    /\ pc[r] = "infer"
    /\ engine_calls' = [engine_calls EXCEPT ![r] = @ + 1]
    /\ engine_tempo' = [engine_tempo EXCEPT ![r] = ResolvedTempo(midi_tempo[r], detected_bpm[r])]
    /\ \E o \in EngineOutcomes :
        /\ engine_result' = [engine_result EXCEPT ![r] = o]
        /\ disk' = IF o.kind = "wrote" THEN disk \cup {MidiPath(input_path[r])} ELSE disk
        /\ outcome' = [outcome EXCEPT ![r] = IF o.kind = "raise" THEN Raised(o.msg) ELSE @]
        /\ pc' = [pc EXCEPT ![r] =
                IF o.kind = "raise"
                THEN (IF engine_calls[r] = 0 THEN "infer" ELSE "finally")
                ELSE "check"]
    /\ UNCHANGED <<loop, usedIds, locals, ret, resp, est_calls, est_result,
                   save_result, rm_result>>

\* predict_and_save(...): it raises, or returns having written the MIDI file
\* under its own name for the input, or returns without it
Infer(r) ==
    /\ pc[r] = "infer"
    /\ engine_calls' = [engine_calls EXCEPT ![r] = @ + 1]
    /\ engine_tempo' = [engine_tempo EXCEPT ![r] = ResolvedTempo(midi_tempo[r], detected_bpm[r])]
    /\ \E o \in EngineOutcomes :
        /\ engine_result' = [engine_result EXCEPT ![r] = o]
        /\ disk' = IF o.kind = "wrote" THEN disk \cup {MidiPath(input_path[r])} ELSE disk
        /\ outcome' = [outcome EXCEPT ![r] = IF o.kind = "raise" THEN Raised(o.msg) ELSE @]
        /\ pc' = [pc EXCEPT ![r] = IF o.kind = "raise" THEN "finally" ELSE "check"]
    /\ UNCHANGED <<loop, usedIds, locals, ret, resp, est_calls, est_result,
                   save_result, rm_result>>

\* midi_path is derived and tested; the FileResponse is built or the
\* HTTPException raised
CheckOutput(r) ==
    /\ pc[r] = "check"
    /\ midi_path' = [midi_path EXCEPT ![r] = MidiPath(input_path[r])]
    /\ IF MidiPath(input_path[r]) \in disk
       THEN /\ ret' = [ret EXCEPT ![r] =
                    FileResponse(MidiPath(input_path[r]), filename[r],
                                 detected_bpm[r], bpm_error[r])]
            /\ outcome' = [outcome EXCEPT ![r] = Returned]
       ELSE /\ outcome' = [outcome EXCEPT ![r] = HTTPException("Output generation failed")]
            /\ ret' = ret
    /\ pc' = [pc EXCEPT ![r] = "finally"]
    /\ UNCHANGED <<loop, disk, usedIds, filename, midi_tempo, file_id, input_path,
                   detected_bpm, bpm_error, resp, observed>>

\* (mutant) the handler without its finally block
CleanupSkipped(r) ==
    /\ pc[r] = "finally"
    /\ pc' = [pc EXCEPT ![r] = "exit"]
    /\ UNCHANGED <<loop, disk, usedIds, locals, outcome, ret, resp, observed>>

\* (mutant) a finally block that tries the removal again while it raises
CleanupRetries(r) ==
    /\ pc[r] = "finally"
    /\ IF input_path[r] \in disk
       THEN \E o \in RemoveOutcomes :
            /\ rm_result' = [rm_result EXCEPT ![r] = o]
            /\ disk' = AfterRemove(disk, input_path[r], o)
            /\ outcome' = [outcome EXCEPT ![r] =
                    IF o = "removed" THEN @ ELSE Raised(RemoveError(o))]
            /\ pc' = [pc EXCEPT ![r] = IF o = "raise_kept" THEN "finally" ELSE "exit"]
       ELSE /\ UNCHANGED <<rm_result, disk, outcome>>
            /\ pc' = [pc EXCEPT ![r] = "exit"]
    /\ UNCHANGED <<loop, usedIds, locals, ret, resp, est_calls, est_result,
                   engine_calls, engine_tempo, engine_result, save_result>>

\* finally: if os.path.exists(input_path): os.remove(input_path).  An
\* exception of os.remove replaces what the handler was leaving with.
Cleanup(r) ==
    /\ pc[r] = "finally"
    /\ IF input_path[r] \in disk
       THEN \E o \in RemoveOutcomes :
            /\ rm_result' = [rm_result EXCEPT ![r] = o]
            /\ disk' = AfterRemove(disk, input_path[r], o)
            /\ outcome' = [outcome EXCEPT ![r] =
                    IF o = "removed" THEN @ ELSE Raised(RemoveError(o))]
       ELSE UNCHANGED <<rm_result, disk, outcome>>
    /\ pc' = [pc EXCEPT ![r] = "exit"]
    /\ UNCHANGED <<loop, usedIds, locals, ret, resp, est_calls, est_result,
                   engine_calls, engine_tempo, engine_result, save_result>>

\* the handler body is left: the client's response is what the framework
\* and log_requests make of what the handler left with, and the frame's tempo
\* values are gone.  The request keeps its paths: its files may be on disk.
Return(r) ==
    /\ pc[r] = "exit"
    /\ resp' = [resp EXCEPT ![r] = ClientResponse(outcome[r], ret[r])]
    /\ loop' = NoReq
    /\ pc' = [pc EXCEPT ![r] = "sent"]
    /\ midi_tempo' = [midi_tempo EXCEPT ![r] = 0]
    /\ detected_bpm' = [detected_bpm EXCEPT ![r] = NoNum]
    /\ bpm_error' = [bpm_error EXCEPT ![r] = None]
    /\ outcome' = [outcome EXCEPT ![r] = NoOutcome]
    /\ ret' = [ret EXCEPT ![r] = NoResponse]
    /\ est_calls' = [est_calls EXCEPT ![r] = 0]
    /\ est_result' = [est_result EXCEPT ![r] = "none"]
    /\ engine_calls' = [engine_calls EXCEPT ![r] = 0]
    /\ engine_tempo' = [engine_tempo EXCEPT ![r] = NoNum]
    /\ UNCHANGED <<disk, usedIds, filename, file_id, input_path, midi_path,
                   engine_result, save_result, rm_result>>

Next ==
    \E r \in Requests :
        \/ Arrive(r)
        \/ Start(r)
        \/ SaveOk(r)
        \/ SaveError(r)
        \/ Estimate(r)
        \/ Infer(r)
        \/ CheckOutput(r)
        \/ Cleanup(r)
        \/ Return(r)

Spec == Init /\ [][Next]_vars

\* The derivation of the paths alone, for one upload of any name: the
\* request is received with its filename,
InitPath ==
    /\ pc = [r \in Requests |-> IF r = 1 THEN "received" ELSE "idle"]
    /\ loop = NoReq
    /\ disk = {}
    /\ usedIds = {}
    /\ filename \in {[r \in Requests |-> IF r = 1 THEN n ELSE <<>>] : n \in UploadNames}
    /\ midi_tempo = [r \in Requests |-> 0]
    /\ file_id = [r \in Requests |-> NoId]
    /\ input_path = [r \in Requests |-> <<>>]
    /\ detected_bpm = [r \in Requests |-> NoNum]
    /\ bpm_error = [r \in Requests |-> None]
    /\ midi_path = [r \in Requests |-> <<>>]
    /\ outcome = [r \in Requests |-> NoOutcome]
    /\ ret = [r \in Requests |-> NoResponse]
    /\ resp = [r \in Requests |-> NoResponse]
    /\ est_calls = [r \in Requests |-> 0]
    /\ est_result = [r \in Requests |-> "none"]
    /\ engine_calls = [r \in Requests |-> 0]
    /\ engine_tempo = [r \in Requests |-> NoNum]
    /\ engine_result = [r \in Requests |-> NoEngine]
    /\ save_result = [r \in Requests |-> "none"]
    /\ rm_result = [r \in Requests |-> "none"]

\* file_id and input_path are computed from it,
NameInput(r) ==
    /\ pc[r] = "received"
    /\ loop = NoReq
    /\ LET id == NewId(usedIds)
       IN  /\ file_id' = [file_id EXCEPT ![r] = id]
           /\ input_path' = [input_path EXCEPT ![r] = InputPath(id, filename[r])]
           /\ usedIds' = usedIds \cup {id}
    /\ loop' = r
    /\ pc' = [pc EXCEPT ![r] = "check"]
    /\ UNCHANGED <<disk, filename, midi_tempo, detected_bpm, bpm_error, midi_path,
                   outcome, ret, resp, observed>>

\* and midi_path is derived from input_path, checked and returned
DeriveOutput(r) ==
    /\ pc[r] = "check"
    /\ midi_path' = [midi_path EXCEPT ![r] = MidiPath(input_path[r])]
    /\ ret' = [ret EXCEPT ![r] =
            FileResponse(MidiPath(input_path[r]), filename[r], PyInt(DefaultBpm), None)]
    /\ outcome' = [outcome EXCEPT ![r] = Returned]
    /\ pc' = [pc EXCEPT ![r] = "finally"]
    /\ UNCHANGED <<loop, disk, usedIds, filename, midi_tempo, file_id, input_path,
                   detected_bpm, bpm_error, resp, observed>>

NextPath == \E r \in Requests : NameInput(r) \/ DeriveOutput(r)

SpecPath == InitPath /\ [][NextPath]_vars

\* the steps of the server for one request: the event loop runs the handler
\* of a received request, and each blocking call of the body returns or raises
Handler(r) ==
    \/ Start(r)
    \/ SaveOk(r)
    \/ SaveError(r)
    \/ Estimate(r)
    \/ Infer(r)
    \/ CheckOutput(r)
    \/ Cleanup(r)
    \/ Return(r)

\* the event loop keeps running: a handler step that stays possible is taken
FairSpec == Spec /\ \A r \in Requests : WF_vars(Handler(r))

----------------------------------------------------------------------------
(* Properties *)

\* the handler has run its last statement; what it leaves with is final
Leaving(r) == pc[r] = "exit"
\* the response has left the handler
Completed(r) == pc[r] = "sent"
\* the handler body has started for the request
Started(r) == pc[r] \notin {"idle", "received"}
RemoveRaised(r) == rm_result[r] \in {"raise_kept", "raise_gone"}

\* C1 (as stated): once a request has completed, with a success or with any
\* failure, a failed upload write included, its temporary input file is
\* absent from the upload directory.
C1_InputAbsentAfterAnyCompletion ==
    \A r \in Requests : Completed(r) => input_path[r] \notin disk

\* C1 (amended): once a request whose upload was written has completed, with
\* a success or a failure, its temporary input file is absent from the upload
\* directory, unless os.remove itself raised with the file still in place.
C1_InputAbsentAfterStoredCompletion ==
    \A r \in Requests :
        (Completed(r) /\ save_result[r] = "ok" /\ rm_result[r] # "raise_kept")
            => input_path[r] \notin disk

\* a stored request answered 200 and a stored request answered 500, both
\* with the input file removed by the cleanup
C1_Witness ==
    \E r1, r2 \in Requests :
        /\ Completed(r1) /\ save_result[r1] = "ok" /\ rm_result[r1] = "removed"
        /\ resp[r1].status = StatusOk
        /\ Completed(r2) /\ save_result[r2] = "ok" /\ rm_result[r2] = "removed"
        /\ resp[r2].status = ServerError

\* C2: with midi_tempo > 0 the tempo passed to the engine is midi_tempo
\* itself, whatever BPM detection returned or raised, and with no range check.
C2_ExplicitTempoPassedUnchanged ==
    \A r \in Requests :
        (engine_calls[r] > 0 /\ midi_tempo[r] > 0)
            => engine_tempo[r] = PyInt(midi_tempo[r])

\* the engine was called with 300 although detection had returned 97
C2_Witness ==
    \E r \in Requests :
        /\ engine_calls[r] = 1
        /\ midi_tempo[r] = 300
        /\ est_result[r] = "ok"
        /\ detected_bpm[r] = PyInt(97)
        /\ engine_tempo[r] = PyInt(300)

\* C3 (as stated): with midi_tempo > 0 the tempo estimator is never invoked
\* for the request.
C3_NoEstimationForExplicitTempo ==
    \A r \in Requests : midi_tempo[r] > 0 => est_calls[r] = 0

\* C4 (as stated): with midi_tempo <= 0, when estimation succeeds with a
\* rounded value in [40, 250] the engine gets that value and there is no tempo
\* error; in every other case the engine gets exactly 120 and the tempo error
\* is present.
C4_EstimateUsedOnlyInBand ==
    \A r \in Requests :
        (engine_calls[r] > 0 /\ midi_tempo[r] <= 0) =>
            IF est_result[r] = "ok" /\ detected_bpm[r].v >= 40 /\ detected_bpm[r].v <= 250
            THEN engine_tempo[r] = detected_bpm[r] /\ bpm_error[r] = None
            ELSE engine_tempo[r] = PyInt(FallbackTempo) /\ bpm_error[r].some

\* C5 (as stated): when the decoder or the estimator raises for a stored
\* request with midi_tempo = 0, the engine is still called, with tempo 120,
\* and the tempo error on the success response is present and non-empty.
C5_EstimatorFailureDegrades ==
    \A r \in Requests :
        (Leaving(r) /\ midi_tempo[r] = 0 /\ est_result[r] = "raised") =>
            /\ engine_calls[r] = 1
            /\ engine_tempo[r] = PyInt(FallbackTempo)
            /\ outcome[r].kind = "return" =>
                /\ "X-Bpm-Error" \in DOMAIN ret[r].headers
                /\ ret[r].headers["X-Bpm-Error"] # ""

\* C6 (as stated): when the engine raises, the client gets a 500 whose
\* `detail` is the engine's error text, the input file has been removed and
\* the engine was called once.
C6_EngineErrorReported ==
    \A r \in Requests :
        /\ (Leaving(r) /\ engine_result[r].kind = "raise") => engine_calls[r] = 1
        /\ (Completed(r) /\ engine_result[r].kind = "raise") =>
            /\ resp[r].status = ServerError
            /\ "detail" \in DOMAIN resp[r].body
            /\ resp[r].body["detail"] = engine_result[r].msg
            /\ input_path[r] \notin disk

\* C7: two started requests that uploaded the same original filename have
\* different input paths, and different output paths once both are derived.
C7_DistinctPaths ==
    \A r1, r2 \in Requests :
        (r1 # r2 /\ Started(r1) /\ Started(r2) /\ filename[r1] = filename[r2]) =>
            /\ input_path[r1] # input_path[r2]
            /\ (midi_path[r1] # <<>> /\ midi_path[r2] # <<>>)
                    => midi_path[r1] # midi_path[r2]

\* one request is streaming its MIDI file while another, which uploaded the
\* same filename, has derived its own output path
C7_Witness ==
    \E r1, r2 \in Requests :
        /\ r1 # r2
        /\ filename[r1] = filename[r2]
        /\ Completed(r1) /\ resp[r1].status = StatusOk
        /\ pc[r2] = "finally" /\ midi_path[r2] # <<>>
        /\ input_path[r1] # input_path[r2]

\* C8 (as stated): a 200 is sent only if the output file exists after the
\* engine returned; when the engine returns without the file, the client
\* gets the 500 "generation failed" error and no MIDI body.
C8_SuccessOnlyWithOutput ==
    \A r \in Requests :
        Completed(r) =>
            /\ resp[r].status = StatusOk =>
                (engine_result[r].kind = "wrote" /\ midi_path[r] \in disk)
            /\ engine_result[r].kind = "nofile" =>
                /\ resp[r].status = ServerError
                /\ resp[r].media_type # "audio/midi"
                /\ "detail" \in DOMAIN resp[r].body
                /\ resp[r].body["detail"] = "Output generation failed"

\* what the try block left with, from what the engine did
TryOutcome(r) ==
    CASE engine_result[r].kind = "raise" -> Raised(engine_result[r].msg)
      [] engine_result[r].kind = "nofile" -> HTTPException("Output generation failed")
      [] OTHER -> Returned

\* C9 (as stated): when the deletion of the input file raises, the request
\* leaves with what the try block left with: the success stays a success, the
\* failure stays the same failure.
C9_CleanupFailureNotEscalated ==
    \A r \in Requests :
        (Leaving(r) /\ RemoveRaised(r)) => outcome[r] = TryOutcome(r)

\* C10 (as stated): a success response carries the X-Bpm-Error header if and
\* only if BPM detection failed for the request.
C10_ErrorHeaderIffEstimationFailed ==
    \A r \in Requests :
        (Leaving(r) /\ outcome[r].kind = "return") =>
            ("X-Bpm-Error" \in DOMAIN ret[r].headers <=> est_result[r] # "ok")

\* C11 (as stated): on a success response X-Detected-Bpm is the decimal
\* string of the tempo that was passed to the engine for the request.
C11_BpmHeaderIsEngineTempo ==
    \A r \in Requests :
        (Leaving(r) /\ outcome[r].kind = "return") =>
            ret[r].headers["X-Detected-Bpm"] = Str(engine_tempo[r])

\* C20: the tempo passed to the engine is strictly positive, for every
\* midi_tempo and every outcome of BPM detection.
C20_EngineTempoPositive ==
    \A r \in Requests : engine_calls[r] > 0 => Gt0(engine_tempo[r])

\* the engine was called for midi_tempo = -1 after detection returned -5,
\* and for midi_tempo = 0 after round() raised on nan
C20_Witness ==
    \E r1, r2 \in Requests :
        /\ engine_calls[r1] = 1 /\ midi_tempo[r1] = -1
        /\ detected_bpm[r1] = PyInt(-5)
        /\ engine_tempo[r1] = PyInt(FallbackTempo)
        /\ Completed(r2) /\ resp[r2].status = StatusOk
        /\ resp[r2].headers["X-Detected-Bpm"] = <<"n", "a", "n">>

\* C13: when the upload cannot be written, the request is aborted before any
\* processing: neither BPM detection nor the engine is called for it, and the
\* client gets a 500 whose detail is the error's message.
C13_StorageErrorAborts ==
    \A r \in Requests :
        save_result[r] = "failed" =>
            /\ pc[r] \in {"exit", "sent"}
            /\ est_calls[r] = 0 /\ est_result[r] = "none"
            /\ engine_calls[r] = 0 /\ engine_result[r].kind = "none"
            /\ Leaving(r) =>
                (outcome[r].kind = "HTTPException" /\ outcome[r].msg \in SaveMsgs)
            /\ Completed(r) =>
                /\ resp[r].status = ServerError
                /\ "detail" \in DOMAIN resp[r].body
                /\ resp[r].body["detail"] \in SaveMsgs

\* a request whose write failed half way has been answered
C13_Witness ==
    \E r \in Requests :
        /\ Completed(r) /\ save_result[r] = "failed"
        /\ input_path[r] \in disk
        /\ resp[r].status = ServerError

\* the step of r that runs the finally block
CleanupStep(r) == pc[r] = "finally" /\ pc'[r] = "exit"
\* a step that takes r's input file off the disk
InputDeleted(r) ==
    input_path[r] # <<>> /\ input_path[r] \in disk /\ input_path[r] \notin disk'

\* what C14 says of the order of the deletion: the input file leaves the
\* disk only in the finally block of its request, after the engine call has
\* returned or raised; it is on disk throughout BPM detection and the engine
\* call; and no response leaves the handler of a stored request before the
\* finally block ran
DeletionOrder(r) ==
    /\ InputDeleted(r) => (CleanupStep(r) /\ engine_result[r].kind # "none")
    /\ pc'[r] \in {"bpm", "infer"} => input_path'[r] \in disk'
    /\ (pc[r] # "exit" /\ pc'[r] = "exit" /\ save_result'[r] = "ok") => CleanupStep(r)

\* C14 (as stated): the stored input file is deleted exactly once, after the
\* engine call has returned or raised and before the response or error
\* leaves the handler, and it exists during BPM detection and the engine call.
C14_DeletedExactlyOnce ==
    [][\A r \in Requests :
        /\ DeletionOrder(r)
        /\ CleanupStep(r) => (rm_result'[r] = "removed" /\ InputDeleted(r))
      ]_vars

\* C14 (amended): os.remove is called on the stored input file exactly once,
\* after the engine call has returned or raised and before the response or
\* error leaves the handler, and the file is deleted by that call unless
\* os.remove raises; the file exists during BPM detection and the engine call.
C14_DeletionAttemptedOnce ==
    [][\A r \in Requests :
        /\ DeletionOrder(r)
        /\ CleanupStep(r) =>
            /\ rm_result[r] = "none" /\ rm_result'[r] # "none"
            /\ rm_result'[r] = "removed" => InputDeleted(r)
      ]_vars

\* the engine raised and the finally block has deleted the input file
C14_Witness ==
    \E r \in Requests :
        /\ Leaving(r) /\ save_result[r] = "ok"
        /\ engine_result[r].kind = "raise"
        /\ rm_result[r] = "removed"
        /\ input_path[r] \notin disk

\* a file of the upload or the output directory
IsFile(p) == Len(p) > 1
IsOutputFile(p) == IsFile(p) /\ SubSeq(p, 1, Len(output_dir)) = output_dir

\* C17: no step of the pipeline deletes an output MIDI file: every output
\* file on disk is still there after the step, and the output file of a
\* request answered 200 exists when its response leaves.
C17_OutputsNeverDeleted ==
    [][/\ \A p \in disk : IsOutputFile(p) => p \in disk'
       /\ \A r \in Requests :
            (pc'[r] = "sent" /\ resp'[r].status = StatusOk) => resp'[r].path \in disk'
      ]_vars

\* a request was answered 200, and a later request has run its cleanup while
\* the first one's output file stayed on disk
C17_Witness ==
    \E r1, r2 \in Requests :
        /\ r1 # r2
        /\ Completed(r1) /\ resp[r1].status = StatusOk /\ rm_result[r1] = "removed"
        /\ IsOutputFile(midi_path[r1]) /\ midi_path[r1] \in disk
        /\ Leaving(r2) /\ rm_result[r2] = "removed"

\* C19 (as stated): when a request starts processing, the upload and output
\* directories exist and hold no file left by an earlier request.
C19_DirectoriesPurged ==
    \A r \in Requests :
        pc[r] = "save" =>
            /\ {upload_dir, output_dir} \subseteq disk
            /\ \A p \in disk : ~IsFile(p)

\* a step that puts r's input file on the disk
InputWritten(r) ==
    input_path[r] # <<>> /\ input_path[r] \notin disk /\ input_path[r] \in disk'

\* C16: a request writes and deletes only its own input file: the input file
\* of a request appears on disk only by that request's own write and leaves
\* it only by that request's own cleanup, and no two started requests have
\* the same input path, so no upload lands on another request's file.
C16_OwnInputFileOnly ==
    [][\A q \in Requests :
        /\ InputWritten(q) => (pc[q] = "save" /\ pc'[q] \in {"bpm", "exit"})
        /\ InputDeleted(q) => CleanupStep(q)
        /\ \A r \in Requests :
            (r # q /\ Started(r)' /\ Started(q)') => input_path'[r] # input_path'[q]
      ]_vars

\* a request left its input file behind (os.remove raised) and another
\* request, which uploaded the same filename, has written and removed its own
C16_Witness ==
    \E q, r \in Requests :
        /\ q # r
        /\ filename[q] = filename[r]
        /\ Completed(q) /\ input_path[q] \in disk
        /\ Leaving(r) /\ save_result[r] = "ok" /\ rm_result[r] = "removed"
        /\ input_path[r] \notin disk

\* the state of the request in the spec's per-request state machine; while
\* the handler is leaving (finally block, return) the request is still in the
\* state it leaves from
Stage(r) ==
    CASE pc[r] = "idle" -> "None"
      [] pc[r] \in {"received", "save"} -> "Received"
      [] pc[r] = "bpm" -> "Stored"
      [] pc[r] = "infer" -> "TempoResolved"
      [] pc[r] = "check" -> "Transcribed"
      [] pc[r] \in {"finally", "exit"} ->
            IF save_result[r] = "failed" THEN "Received"
            ELSE IF engine_result[r].kind = "raise" THEN "TempoResolved"
            ELSE "Transcribed"
      [] OTHER -> IF resp[r].status = StatusOk THEN "Completed" ELSE "Failed"

Terminal == {"Completed", "Failed"}

\* Received -> Stored -> TempoResolved -> Transcribed -> {Completed | Failed}
ClaimedEdges ==
    { <<"None", "Received">>, <<"Received", "Stored">>, <<"Stored", "TempoResolved">>,
      <<"TempoResolved", "Transcribed">>, <<"Transcribed", "Completed">>,
      <<"Transcribed", "Failed">> }

\* the failures that leave before Transcribed: the upload's write failed, the
\* engine raised
EarlyFailureEdges == { <<"Received", "Failed">>, <<"TempoResolved", "Failed">> }

\* C15 (as stated): a request moves only along Received, Stored,
\* TempoResolved, Transcribed and then one terminal state; the cleanup has
\* run when it enters the terminal state; a terminal state is never left and
\* the engine is called at most once.
C15_StateMachine ==
    [][\A r \in Requests :
        /\ Stage(r)' # Stage(r) => <<Stage(r), Stage(r)'>> \in ClaimedEdges
        /\ (Stage(r)' \in Terminal /\ Stage(r) \notin Terminal) => rm_result'[r] # "none"
        /\ Stage(r) \in Terminal => resp'[r] = resp[r]
        /\ engine_calls'[r] <= 1
      ]_vars

\* C15 (amended): as stated, except that a request also enters Failed
\* straight from Received (the upload's write failed) and from TempoResolved
\* (the engine raised), and that the cleanup has run on entering the terminal
\* state only for a request whose upload was stored.
C15_StateMachineWithEarlyFailures ==
    [][\A r \in Requests :
        /\ Stage(r)' # Stage(r) =>
                <<Stage(r), Stage(r)'>> \in ClaimedEdges \cup EarlyFailureEdges
        /\ (Stage(r)' \in Terminal /\ Stage(r) \notin Terminal /\ save_result[r] = "ok")
                => rm_result'[r] # "none"
        /\ Stage(r) \in Terminal => resp'[r] = resp[r]
        /\ engine_calls'[r] <= 1
      ]_vars

\* one request is Completed, another is Failed after the engine raised and
\* the cleanup removed its input file
C15_Witness ==
    \E r1, r2 \in Requests :
        /\ Stage(r1) = "Completed" /\ rm_result[r1] = "removed"
        /\ Stage(r2) = "Failed" /\ engine_result[r2].kind = "raise"
        /\ rm_result[r2] = "removed"

\* how far the handler of a request has come
Position(p) ==
    CASE p = "idle" -> 0
      [] p = "received" -> 1
      [] p = "save" -> 2
      [] p = "bpm" -> 3
      [] p = "infer" -> 4
      [] p = "check" -> 5
      [] p = "finally" -> 6
      [] p = "exit" -> 7
      [] OTHER -> 8

\* C18: a request whose handler has started eventually has its response
\* sent, whatever the write, the estimator, the engine and the removal do;
\* every step of the handler takes the request further and none takes it
\* back; and the response, once sent, is the only one: it never changes.
C18_RunsToCompletion ==
    /\ \A r \in Requests : Started(r) ~> Completed(r)
    /\ [][\A r \in Requests :
            /\ Handler(r) => Position(pc'[r]) > Position(pc[r])
            /\ Position(pc'[r]) >= Position(pc[r])
            /\ Completed(r) => (Completed(r)' /\ resp'[r] = resp[r])
            /\ (~Completed(r) /\ Completed(r)') => resp'[r] # NoResponse
            /\ ~Completed(r) => resp[r] = NoResponse
         ]_vars

\* every request has its response, one of them after each of the steps that
\* can fail did fail: estimator, engine and removal
C18_Witness ==
    /\ \A r \in Requests : Completed(r) /\ resp[r] # NoResponse
    /\ \E r \in Requests :
        /\ engine_result[r].kind = "raise"
        /\ RemoveRaised(r)
    /\ \E r \in Requests : save_result[r] = "failed"

\* the name without its last extension: what precedes the last dot, the
\* whole name when it has no dot
StripExt(b) ==
    IF \E k \in 1..Len(b) : b[k] = Dot
    THEN CHOOSE s \in {SubSeq(b, 1, k - 1) : k \in 1..Len(b)} :
            \E e \in {SubSeq(b, k + 1, Len(b)) : k \in 1..Len(b)} :
                /\ b = s \o <<Dot>> \o e
                /\ \A i \in 1..Len(e) : e[i] # Dot
    ELSE b

\* a filename the upload can be stored under: it names no directory
Legal(name) == ~HasSep(name)

\* C12: for every legal filename the output path that is checked and
\* returned is output_dir joined with the base name of input_path without
\* its last extension, followed by _basic_pitch.mid; the base name is the
\* identifier, an underscore and the filename, so every character of the
\* filename before its last dot, spaces and earlier dots included, is kept.
C12_OutputPathDerivation ==
    \A r \in Requests :
        (pc[r] = "finally" /\ Legal(filename[r])) =>
            LET base == <<file_id[r], "_">> \o filename[r]
            IN  /\ input_path[r] = upload_dir \o <<Sep>> \o base
                /\ midi_path[r] =
                        output_dir \o <<Sep>> \o StripExt(base) \o <<"_basic_pitch.mid">>
                /\ ret[r].path = midi_path[r]
                /\ ret[r].headers["X-Absolute-Path"] = Abspath(midi_path[r])

\* the output path of an upload named " .a.a": a space and two dots
C12_Witness ==
    \E r \in Requests :
        /\ pc[r] = "finally"
        /\ filename[r] = <<" ", Dot, "a", Dot, "a">>
        /\ midi_path[r] = <<"outputs", Sep, "u1", "_", " ", Dot, "a", "_basic_pitch.mid">>
        /\ ret[r].path = midi_path[r]

====
